---- MODULE Spec2Model ----
(***************************************************************************)
(* Contacts REST backend: user accounts with e-mail confirmation, signed   *)
(* expiring tokens with a scope claim, and CRUD over contacts.             *)
(*                                                                         *)
(* The relational store is modelled with the constraints that              *)
(* src/database/models.py declares (primary keys, UNIQUE, NOT NULL,        *)
(* FOREIGN KEY).  Time is counted in minutes, the resolution of            *)
(* expires_delta; the exp claim of a token and the clock that jwt.decode   *)
(* compares it with are both whole numbers of that unit.                   *)
(***************************************************************************)
EXTENDS Integers, Sequences, FiniteSets, TLC

VARIABLES users, userSeq, contacts, contactSeq, clock, token, scheduled,
          today, resp, cache, inflight

vars == <<users, userSeq, contacts, contactSeq, clock, token, scheduled,
          today, resp, cache, inflight>>

------------------------------------------------------------------------------
(* Bounds of the model *)
MaxUsers == 2
MaxClock == 17
MaxContacts == 2
MaxInserts == 1

(* Python None / SQL NULL, one value per column type *)
None == "None"
NoId == 0
NoDate == <<0, 0>>

Emails == {"a@x", "b@x"}
Passwords == {"secret1"}
UsernameSeq == <<"ann", "bob">>
UsernameOf(i) == UsernameSeq[((i - 1) % 2) + 1]
Usernames == {UsernameSeq[i] : i \in 1..2}

(* passlib bcrypt: a one-way value that is never the plaintext *)
hash_password(password) == <<"bcrypt", password>>

------------------------------------------------------------------------------
(* Entity layer: users *)

UserColumns == {"id", "username", "email", "hashed_password", "created_at",
                "avatar", "confirmed"}

UserRow(i, n, e, h, t, a, c) ==
    [id |-> i, username |-> n, email |-> e, hashed_password |-> h,
     created_at |-> t, avatar |-> a, confirmed |-> c]

(* The constraints of table "users": primary key, email UNIQUE, and the    *)
(* NOT NULL columns (avatar alone is nullable).                            *)
UsersConstraintsOk(db) ==
    /\ \A u, v \in db : (u.id = v.id) => (u = v)
    /\ \A u, v \in db : (u.email = v.email) => (u = v)
    /\ \A u \in db : u.username # None /\ u.email # None

(* Schema classes as the sets of attributes their instances carry *)
UserCreateSchema ==
    [username : Usernames, email : Emails, password : Passwords]

(* Attribute access on a schema instance: an undeclared name raises *)
HasAttrs(obj, names) == names \subseteq DOMAIN obj

------------------------------------------------------------------------------
(* Data-access layer: UserRepository *)

get_user_by_email(db, email) ==
    IF \E u \in db : u.email = email
    THEN CHOOSE u \in db : u.email = email
    ELSE [id |-> NoId]

Found(row) == row.id # NoId

(* create_user reads username, email, avatar and confirmed from user_in.   *)
(* An instance that lacks one of them raises AttributeError before the     *)
(* session is touched.  Otherwise the row is inserted under the table      *)
(* constraints; a violated constraint raises IntegrityError at commit.     *)
create_user(db, seq, user_in, hashed_password, now) ==
    IF ~HasAttrs(user_in, {"username", "email", "avatar", "confirmed"})
    THEN [err |-> "AttributeError", users |-> db, seq |-> seq,
          row |-> [id |-> NoId]]
    ELSE LET row == UserRow(seq + 1, user_in.username, user_in.email,
                            hashed_password, now, user_in.avatar,
                            user_in.confirmed)
         IN IF UsersConstraintsOk(db \cup {row})
            THEN [err |-> "ok", users |-> db \cup {row}, seq |-> seq + 1,
                  row |-> row]
            ELSE [err |-> "IntegrityError", users |-> db, seq |-> seq + 1,
                  row |-> [id |-> NoId]]

(* UserRepository declares create_user, get_users, get_user_by_email,      *)
(* get_user_by_id, update_user and delete_user.  A call of any other       *)
(* method name raises AttributeError and leaves the session untouched.     *)
UserRepositoryMethods ==
    {"create_user", "get_users", "get_user_by_email", "get_user_by_id",
     "update_user", "delete_user"}

change_confirmed_email_mut_all(db, email) ==
    [err |-> "ok", users |-> {[u EXCEPT !.confirmed = TRUE] : u \in db}]

change_confirmed_email(db, email) ==
    IF "change_confirmed_email" \in UserRepositoryMethods
    THEN [err |-> "ok",
          users |-> {IF u.email = email THEN [u EXCEPT !.confirmed = TRUE]
                     ELSE u : u \in db}]
    ELSE [err |-> "AttributeError", users |-> db]

------------------------------------------------------------------------------
(* Token/identity service *)

SECRET_KEY == "SECRET_KEY"
OtherKey == "other-key"
ExpiresDeltaDefault == 15
Scopes == {"access_token", "verification_token"}

(* The identity claims callers put in a payload: {"email": E}, or a        *)
(* payload that carries no "email" key.                                    *)
Payloads == {[email |-> e] : e \in Emails} \cup {[user_email |-> e] : e \in Emails}

(* payload["exp"] = now + expires_delta; payload["scope"] = scope; sign *)
create_jwt_token(payload, scope, expires_delta, now) ==
    [claims |-> [exp |-> now + expires_delta, scope |-> scope] @@ payload,
     key |-> SECRET_KEY]

NoToken == [claims |-> [exp |-> 0, scope |-> "none"], key |-> "none"]

(* jwt.decode: JWTError when the signature does not verify or exp < now *)
JwtDecodeOk(tok, now) ==
    /\ tok.key = SECRET_KEY
    /\ ~(tok.claims.exp < now)

PayloadGet(claims, name) ==
    IF name \in DOMAIN claims THEN claims[name] ELSE None

decode_jwt_token_mut_noscope(tok, scope, now) ==
    IF ~JwtDecodeOk(tok, now)
    THEN [status |-> 401, detail |-> "Could not validate credentials",
          email |-> None]
    ELSE [status |-> 200, detail |-> "",
          email |-> PayloadGet(tok.claims, "email")]

decode_jwt_token_mut_noexp(tok, scope, now) ==
    IF tok.key # SECRET_KEY
    THEN [status |-> 401, detail |-> "Could not validate credentials",
          email |-> None]
    ELSE IF PayloadGet(tok.claims, "scope") # scope
    THEN [status |-> 401, detail |-> "Invalid token scope", email |-> None]
    ELSE [status |-> 200, detail |-> "",
          email |-> PayloadGet(tok.claims, "email")]

decode_jwt_token(tok, scope, now) ==
    IF ~JwtDecodeOk(tok, now)
    THEN [status |-> 401, detail |-> "Could not validate credentials",
          email |-> None]
    ELSE IF PayloadGet(tok.claims, "scope") # scope
    THEN [status |-> 401, detail |-> "Invalid token scope", email |-> None]
    ELSE [status |-> 200, detail |-> "",
          email |-> PayloadGet(tok.claims, "email")]

decode_verification_token(tok, now) ==
    decode_jwt_token(tok, "verification_token", now)

(* get_current_user: decode as access token, then look the user up in    *)
(* the database; db_reads counts the queries the call executes.            *)
get_current_user_mut_nouser(db, tok, now) ==
    LET d == decode_jwt_token(tok, "access_token", now)
    IN IF d.status # 200
       THEN [status |-> 401, detail |-> d.detail, user |-> [id |-> NoId],
             db_reads |-> 0]
       ELSE [status |-> 200, detail |-> "",
             user |-> get_user_by_email(db, d.email), db_reads |-> 1]

get_current_user(db, tok, now) ==
    LET d == decode_jwt_token(tok, "access_token", now)
    IN IF d.status # 200
       THEN [status |-> 401, detail |-> d.detail, user |-> [id |-> NoId],
             db_reads |-> 0]
       ELSE IF d.email = None
       THEN [status |-> 401, detail |-> "Could not validate credentials",
             user |-> [id |-> NoId], db_reads |-> 0]
       ELSE LET user == get_user_by_email(db, d.email)
            IN IF ~Found(user)
               THEN [status |-> 401,
                     detail |-> "Could not validate credentials",
                     user |-> [id |-> NoId], db_reads |-> 1]
               ELSE [status |-> 200, detail |-> "", user |-> user,
                     db_reads |-> 1]

------------------------------------------------------------------------------
(* Response shape of a user: response_model = UserResponseSchema *)

UserResponseFields ==
    {"id", "username", "email", "created_at", "avatar", "confirmed"}

(* created_at is declared Optional[str]; the column holds a datetime (the  *)
(* integers of the clock here), which the schema does not accept: the      *)
(* response of a handler that returns such a row fails validation.         *)
IsDatetime(v) == v \in Int

serialize_user_mut_full(row) == [err |-> "ok", body |-> row]

serialize_user(row) ==
    IF IsDatetime(row.created_at)
    THEN [err |-> "ResponseValidationError", body |-> NoId]
    ELSE [err |-> "ok", body |-> [f \in UserResponseFields |-> row[f]]]

------------------------------------------------------------------------------
(* Request layer: /auth *)

(* POST /auth/signup is registered twice on the router; the router serves  *)
(* a request with the first route that matches, the handler of lines       *)
(* 22-61.  signup_resume is that handler from the point where the lookup   *)
(* has returned no user: hash, create the row, schedule the email.         *)
signup_resume(db, seq, body, now) ==
    LET hashed == hash_password(body.password)
        c == create_user(db, seq, body, hashed, now)
    IN IF c.err # "ok"
       THEN [status |-> 500, detail |-> c.err, users |-> c.users,
             seq |-> c.seq, row |-> [id |-> NoId], mails |-> <<>>,
             body |-> <<>>]
       ELSE LET out == serialize_user(c.row)
            IN IF out.err # "ok"
               THEN [status |-> 500, detail |-> out.err, users |-> c.users,
                     seq |-> c.seq, row |-> c.row, mails |-> <<>>,
                     body |-> <<>>]
               ELSE [status |-> 201, detail |-> "", users |-> c.users,
                     seq |-> c.seq, row |-> c.row,
                     mails |-> <<[email |-> c.row.email,
                                  username |-> c.row.username]>>,
                     body |-> <<out.body>>]

signup_mut_nocheck(db, seq, body, now) == signup_resume(db, seq, body, now)

signup(db, seq, body, now) ==
    IF Found(get_user_by_email(db, body.email))
    THEN [status |-> 409, detail |-> "Account already exists", users |-> db,
          seq |-> seq, row |-> [id |-> NoId], mails |-> <<>>, body |-> <<>>]
    ELSE signup_resume(db, seq, body, now)

confirmed_email_mut_norecheck(db, tok, now) ==
    LET d == decode_verification_token(tok, now)
    IN IF d.status # 200
       THEN [status |-> d.status, detail |-> d.detail, users |-> db]
       ELSE LET user == get_user_by_email(db, d.email)
            IN IF ~Found(user)
               THEN [status |-> 400, detail |-> "Verification error",
                     users |-> db]
               ELSE LET c == change_confirmed_email(db, d.email)
                    IN IF c.err # "ok"
                       THEN [status |-> 500, detail |-> c.err,
                             users |-> c.users]
                       ELSE [status |-> 200, detail |-> "Email confirmed",
                             users |-> c.users]

(* GET /auth/confirmed_email/{token} *)
confirmed_email(db, tok, now) ==
    LET d == decode_verification_token(tok, now)
    IN IF d.status # 200
       THEN [status |-> d.status, detail |-> d.detail, users |-> db]
       ELSE LET user == get_user_by_email(db, d.email)
            IN IF ~Found(user)
               THEN [status |-> 400, detail |-> "Verification error",
                     users |-> db]
               ELSE IF user.confirmed
               THEN [status |-> 200,
                     detail |-> "Your email is already confirmed",
                     users |-> db]
               ELSE LET c == change_confirmed_email(db, d.email)
                    IN IF c.err # "ok"
                       THEN [status |-> 500, detail |-> c.err,
                             users |-> c.users]
                       ELSE [status |-> 200, detail |-> "Email confirmed",
                             users |-> c.users]

------------------------------------------------------------------------------
(* Initial stores *)

InitUserRows ==
    {UserRow(i, UsernameOf(i), e, hash_password("secret1"), 0, None, c) :
        i \in 1..MaxUsers, e \in Emails, c \in BOOLEAN}

InitUserStores == {S \in SUBSET InitUserRows : UsersConstraintsOk(S)}

NoResp == [op |-> "none", status |-> 0]

(* The identity cache (AuthService.redis_client): email -> cached entry.   *)
(* No statement of the service reads or writes it.                         *)
EmptyCache == [e \in {} |-> 0]

(* Requests suspended at an await, by request number *)
NoRequests == <<>>

(* The tokens a client can present: the one it holds, or that token with   *)
(* a signature made under another key.                                     *)
Forge(tok) == [tok EXCEPT !.key = OtherKey]
Presentable == {token, Forge(token)}

------------------------------------------------------------------------------
(* Actions of the auth flow *)

Signup ==
    \E body \in UserCreateSchema :
        LET r == signup(users, userSeq, body, clock)
        IN /\ users' = r.users
           /\ userSeq' = r.seq
           /\ scheduled' = scheduled \o r.mails
           /\ resp' = [op |-> "signup", status |-> r.status,
                       detail |-> r.detail, req |-> body, row |-> r.row,
                       body |-> r.body]
           /\ UNCHANGED <<contacts, contactSeq, clock, token, today, cache,
                          inflight>>

CreateJwtToken ==
    \E p \in Payloads, s \in Scopes :
        /\ token' = create_jwt_token(p, s, ExpiresDeltaDefault, clock)
        /\ resp' = [op |-> "create_jwt_token", status |-> 200]
        /\ UNCHANGED <<users, userSeq, contacts, contactSeq, clock,
                       scheduled, today, cache, inflight>>

ConfirmedEmail ==
    \E tok \in Presentable :
        LET r == confirmed_email(users, tok, clock)
        IN /\ users' = r.users
           /\ resp' = [op |-> "confirmed_email", status |-> r.status,
                       detail |-> r.detail, tok |-> tok]
           /\ UNCHANGED <<userSeq, contacts, contactSeq, clock, token,
                          scheduled, today, cache, inflight>>

GetCurrentUser ==
    \E tok \in Presentable :
        LET r == get_current_user(users, tok, clock)
        IN /\ resp' = [op |-> "get_current_user", status |-> r.status,
                       detail |-> r.detail, tok |-> tok, user |-> r.user,
                       db_reads |-> r.db_reads]
           /\ UNCHANGED <<users, userSeq, contacts, contactSeq, clock, token,
                          scheduled, today, cache, inflight>>

Tick ==
    /\ clock < MaxClock
    /\ clock' = clock + 1
    /\ resp' = [op |-> "tick", status |-> 0]
    /\ UNCHANGED <<users, userSeq, contacts, contactSeq, token, scheduled,
                   today, cache, inflight>>

Init ==
    /\ users \in InitUserStores
    /\ userSeq = MaxUsers
    /\ contacts = {}
    /\ contactSeq = 0
    /\ clock = 0
    /\ token = NoToken
    /\ scheduled = <<>>
    /\ today = <<FALSE, 1, 1>>
    /\ resp = NoResp
    /\ cache = EmptyCache
    /\ inflight = NoRequests

Next ==
    \/ Signup
    \/ CreateJwtToken
    \/ ConfirmedEmail
    \/ GetCurrentUser
    \/ Tick

Spec == Init /\ [][Next]_vars

------------------------------------------------------------------------------
(* Properties of the auth flow *)

StoreUnchanged ==
    /\ users' = users
    /\ userSeq' = userSeq
    /\ contacts' = contacts
    /\ contactSeq' = contactSeq
    /\ scheduled' = scheduled

UniqueUserEmail == \A u, v \in users : (u.email = v.email) => (u = v)

EmailStored(db, e) == \E u \in db : u.email = e

(* C1: a signup whose email is the email of a stored user is answered 409  *)
(* and adds no row, and the user table never holds two rows with the same  *)
(* email.                                                                  *)
C1_SignupConflict ==
    /\ []UniqueUserEmail
    /\ [][(resp'.op = "signup" /\ EmailStored(users, resp'.req.email))
            => (resp'.status = 409 /\ users' = users)]_vars

C1_Witness ==
    /\ resp.op = "signup"
    /\ resp.status = 409
    /\ EmailStored(users, resp.req.email)

(* C2: a signup with a valid body and an email that is not registered      *)
(* creates exactly one row, unconfirmed and with the hashed password,      *)
(* schedules exactly one confirmation email for the address and answers    *)
(* 201 with the created user.                                              *)
C2_SignupCreates ==
    [][(resp'.op = "signup" /\ ~EmailStored(users, resp'.req.email))
        => /\ resp'.status = 201
           /\ \E row \in users' :
                /\ row \notin users
                /\ users' = users \cup {row}
                /\ row.email = resp'.req.email
                /\ row.username = resp'.req.username
                /\ row.confirmed = FALSE
                /\ row.hashed_password = hash_password(resp'.req.password)
                /\ resp'.row = row
           /\ scheduled' = Append(scheduled,
                                  [email |-> resp'.req.email,
                                   username |-> resp'.req.username])]_vars

(* A presented token that create_jwt_token issued, not yet expired *)
ValidToken(tok, scope, now) ==
    /\ tok.key = SECRET_KEY
    /\ ~(tok.claims.exp < now)
    /\ tok.claims.scope = scope

TokenEmail(tok) == PayloadGet(tok.claims, "email")

UnconfirmedStored(db, e) == \E u \in db : u.email = e /\ ~u.confirmed

(* C3: confirmed_email with a valid verification token whose email is that *)
(* of a stored unconfirmed user sets that user's confirmed flag, answers   *)
(* "Email confirmed" and changes no other row.                             *)
C3_ConfirmFlipsFlag ==
    [][(/\ resp'.op = "confirmed_email"
        /\ ValidToken(resp'.tok, "verification_token", clock)
        /\ UnconfirmedStored(users, TokenEmail(resp'.tok)))
        => /\ resp'.status = 200
           /\ resp'.detail = "Email confirmed"
           /\ users' = {IF u.email = TokenEmail(resp'.tok)
                        THEN [u EXCEPT !.confirmed = TRUE] ELSE u :
                        u \in users}]_vars

(* C4: a token issued with scope verification_token is rejected with 401   *)
(* by get_current_user, a token issued with scope access_token is rejected *)
(* with 401 by confirmed_email, and neither changes stored state.          *)
C4_ScopeMismatchRejected ==
    [][/\ (/\ resp'.op = "get_current_user"
           /\ resp'.tok.key = SECRET_KEY
           /\ resp'.tok.claims.scope = "verification_token")
            => (resp'.status = 401 /\ StoreUnchanged)
       /\ (/\ resp'.op = "confirmed_email"
           /\ resp'.tok.key = SECRET_KEY
           /\ resp'.tok.claims.scope = "access_token")
            => (resp'.status = 401 /\ StoreUnchanged)]_vars

C4_Witness ==
    /\ resp.op = "confirmed_email"
    /\ ValidToken(resp.tok, "access_token", clock)
    /\ UnconfirmedStored(users, TokenEmail(resp.tok))
    /\ resp.status = 401
    /\ resp.detail = "Invalid token scope"

(* C5: create_jwt_token sets the expiry to the issue time plus             *)
(* expires_delta, and at every clock value later than a token's expiry the *)
(* decoding of that token fails with 401, whatever its signature and       *)
(* scope.                                                                  *)
C5_ExpiredRejected ==
    /\ (resp.op = "create_jwt_token")
        => (token.claims.exp = clock + ExpiresDeltaDefault)
    /\ (/\ resp.op \in {"confirmed_email", "get_current_user"}
        /\ clock > resp.tok.claims.exp)
        => resp.status = 401

C5_Witness ==
    /\ resp.op = "get_current_user"
    /\ resp.tok.key = SECRET_KEY
    /\ resp.tok.claims.scope = "access_token"
    /\ EmailStored(users, TokenEmail(resp.tok))
    /\ clock > resp.tok.claims.exp
    /\ resp.status = 401

------------------------------------------------------------------------------
(* Entity layer: contacts *)

FirstNames == {"Al", "Bo"}
LastNames == {"Li"}
Phones == {"+1", "+2"}
OtherInfos == {None, "hi"}
Birthday0 == <<2000, 5, 1>>

ContactColumns == {"id", "first_name", "last_name", "email", "phone_number",
                   "birthday", "other_info", "user_id"}
TextColumns == {"first_name", "last_name", "email", "phone_number",
                "other_info"}

(* Names that getattr(ContactsModel, name, None) resolves to something     *)
(* other than None: the columns, and attributes of the declarative class   *)
(* that are not columns, of which "metadata" stands here.                  *)
ModelAttributes == ContactColumns \cup {"metadata"}

ContactRow(i, fn, ln, e, ph, b, info, uid) ==
    [id |-> i, first_name |-> fn, last_name |-> ln, email |-> e,
     phone_number |-> ph, birthday |-> b, other_info |-> info,
     user_id |-> uid]

(* The constraints of table "contacts": primary key, email and             *)
(* phone_number UNIQUE, NOT NULL on every column but other_info (user_id   *)
(* is Mapped[int], hence NOT NULL), and user_id REFERENCES users.id.       *)
ContactsConstraintsOk(db, usersDb) ==
    /\ \A c, e \in db : (c.id = e.id) => (c = e)
    /\ \A c, e \in db : (c.email = e.email) => (c = e)
    /\ \A c, e \in db : (c.phone_number = e.phone_number) => (c = e)
    /\ \A c \in db :
        /\ c.first_name # None
        /\ c.last_name # None
        /\ c.email # None
        /\ c.phone_number # None
        /\ c.birthday # NoDate
        /\ c.user_id # NoId
        /\ \E u \in usersDb : u.id = c.user_id

(* ContactCreate instances, as create_contact reads them *)
ContactCreate ==
    [first_name : {"Al"}, last_name : LastNames, email : Emails,
     phone_number : Phones, birthday : {Birthday0}, other_info : OtherInfos]

------------------------------------------------------------------------------
(* Data-access layer: contacts *)

NoRow == [id |-> NoId]

get_contact_by_id(db, contact_id) ==
    IF \E c \in db : c.id = contact_id
    THEN CHOOSE c \in db : c.id = contact_id
    ELSE NoRow

(* create_contact fills every column but user_id, adds and commits.  The   *)
(* id is drawn from the table's sequence whether or not the insert is      *)
(* accepted; a violated constraint raises IntegrityError at commit.        *)
create_contact_mut_owner(db, seq, usersDb, contact) ==
    LET row == ContactRow(seq + 1, contact.first_name, contact.last_name,
                          contact.email, contact.phone_number,
                          contact.birthday, contact.other_info, 1)
    IN IF ContactsConstraintsOk(db \cup {row}, usersDb)
       THEN [err |-> "ok", contacts |-> db \cup {row}, seq |-> seq + 1,
             row |-> row]
       ELSE [err |-> "IntegrityError", contacts |-> db, seq |-> seq + 1,
             row |-> NoRow]

create_contact(db, seq, usersDb, contact) ==
    LET row == ContactRow(seq + 1, contact.first_name, contact.last_name,
                          contact.email, contact.phone_number,
                          contact.birthday, contact.other_info, NoId)
    IN IF ContactsConstraintsOk(db \cup {row}, usersDb)
       THEN [err |-> "ok", contacts |-> db \cup {row}, seq |-> seq + 1,
             row |-> row]
       ELSE [err |-> "IntegrityError", contacts |-> db, seq |-> seq + 1,
             row |-> NoRow]

ApplyPayload_mut_reset(row, payload) ==
    [f \in DOMAIN row |->
        IF f \in DOMAIN payload THEN payload[f]
        ELSE IF f \in {"other_info", "avatar"} THEN None ELSE row[f]]

(* setattr for every field the payload carries *)
ApplyPayload(row, payload) ==
    [f \in DOMAIN row |->
        IF f \in DOMAIN payload THEN payload[f] ELSE row[f]]

update_contact(db, usersDb, contact_id, body) ==
    LET contact == get_contact_by_id(db, contact_id)
    IN IF ~Found(contact)
       THEN [err |-> "ok", contacts |-> db, row |-> NoRow]
       ELSE LET new == ApplyPayload(contact, body)
                db2 == (db \ {contact}) \cup {new}
            IN IF ContactsConstraintsOk(db2, usersDb)
               THEN [err |-> "ok", contacts |-> db2, row |-> new]
               ELSE [err |-> "IntegrityError", contacts |-> db,
                     row |-> NoRow]

delete_contact(db, contact_id) ==
    LET contact == get_contact_by_id(db, contact_id)
    IN IF ~Found(contact)
       THEN [contacts |-> db, row |-> NoRow]
       ELSE [contacts |-> db \ {contact}, row |-> contact]

get_user_by_id(db, user_id) ==
    IF \E u \in db : u.id = user_id
    THEN CHOOSE u \in db : u.id = user_id
    ELSE NoRow

update_user(db, user_id, user_in) ==
    LET db_user == get_user_by_id(db, user_id)
    IN IF ~Found(db_user)
       THEN [err |-> "ok", users |-> db, row |-> NoRow]
       ELSE LET new == ApplyPayload(db_user, user_in)
                db2 == (db \ {db_user}) \cup {new}
            IN IF UsersConstraintsOk(db2)
               THEN [err |-> "ok", users |-> db2, row |-> new]
               ELSE [err |-> "IntegrityError", users |-> db, row |-> NoRow]

------------------------------------------------------------------------------
(* Text matching: column ILIKE '%' || value || '%' *)

Chars(s) ==
    CASE s = "Al" -> <<"A", "l">>
      [] s = "Bo" -> <<"B", "o">>
      [] s = "Li" -> <<"L", "i">>
      [] s = "a@x" -> <<"a", "@", "x">>
      [] s = "b@x" -> <<"b", "@", "x">>
      [] s = "+1" -> <<"+", "1">>
      [] s = "+2" -> <<"+", "2">>
      [] s = "hi" -> <<"h", "i">>
      [] s = "a" -> <<"a">>
      [] s = "L" -> <<"L">>
      [] s = "_" -> <<"_">>
      [] s = "zz" -> <<"z", "z">>
      [] OTHER -> <<>>

Lower(c) ==
    CASE c = "A" -> "a"
      [] c = "B" -> "b"
      [] c = "L" -> "l"
      [] OTHER -> c

LowerSeq(cs) == [i \in 1..Len(cs) |-> Lower(cs[i])]

(* LIKE: "%" matches any run of characters, "_" any one character *)
RECURSIVE LikeMatch(_, _)
LikeMatch(p, t) ==
    IF p = <<>> THEN t = <<>>
    ELSE IF Head(p) = "%"
    THEN \/ LikeMatch(Tail(p), t)
         \/ (t # <<>> /\ LikeMatch(p, Tail(t)))
    ELSE /\ t # <<>>
         /\ (Head(p) = "_" \/ Head(p) = Head(t))
         /\ LikeMatch(Tail(p), Tail(t))

ilike(value, pattern) ==
    /\ value # None
    /\ LikeMatch(<<"%">> \o LowerSeq(Chars(pattern)) \o <<"%">>,
                 LowerSeq(Chars(value)))

FilterKeys == {"first_name", "other_info", "id", "nickname", "metadata"}
FilterPatterns == {"a", "_"}
(* Filter mappings of at most two keys; two keys carry the same pattern *)
FilterMappings ==
    {[k \in K |-> v] :
        K \in {S \in SUBSET FilterKeys : Cardinality(S) <= 2},
        v \in FilterPatterns}

(* search_contacts_repo: no filters, or no key that getattr resolves,      *)
(* gives [] without a query.  A resolved attribute that is not a column    *)
(* has no ilike (AttributeError); ILIKE on a column that is not text is    *)
(* rejected by the database when the statement is executed.                *)
search_contacts_repo_mut_all(db, filters) ==
    LET recognized == DOMAIN filters \cap ModelAttributes
    IN IF recognized \ ContactColumns # {}
       THEN [err |-> "AttributeError", rows |-> {}]
       ELSE IF recognized \ TextColumns # {}
       THEN [err |-> "ProgrammingError", rows |-> {}]
       ELSE [err |-> "ok",
             rows |-> {c \in db :
                         \A f \in recognized : ilike(c[f], filters[f])}]

search_contacts_repo(db, filters) ==
    IF DOMAIN filters = {}
    THEN [err |-> "ok", rows |-> {}]
    ELSE LET recognized == DOMAIN filters \cap ModelAttributes
         IN IF recognized \ ContactColumns # {}
            THEN [err |-> "AttributeError", rows |-> {}]
            ELSE IF recognized = {}
            THEN [err |-> "ok", rows |-> {}]
            ELSE IF recognized \ TextColumns # {}
            THEN [err |-> "ProgrammingError", rows |-> {}]
            ELSE [err |-> "ok",
                  rows |-> {c \in db :
                              \A f \in recognized :
                                  ilike(c[f], filters[f])}]

------------------------------------------------------------------------------
(* Calendar: dates are <<year, month, day>> *)

IsLeap(y) == (y % 4 = 0 /\ y % 100 # 0) \/ (y % 400 = 0)

DaysInMonth(y, m) ==
    IF m = 2 THEN (IF IsLeap(y) THEN 29 ELSE 28)
    ELSE IF m \in {4, 6, 9, 11} THEN 30 ELSE 31

NextDay(d) ==
    IF d[3] < DaysInMonth(d[1], d[2]) THEN <<d[1], d[2], d[3] + 1>>
    ELSE IF d[2] < 12 THEN <<d[1], d[2] + 1, 1>>
    ELSE <<d[1] + 1, 1, 1>>

(* date + timedelta(days = n) *)
RECURSIVE AddDays(_, _)
AddDays(d, n) == IF n = 0 THEN d ELSE AddDays(NextDay(d), n - 1)

DatesOfYear(y) ==
    {<<y, m, dd>> : m \in 1..12, dd \in 1..31} \cap
    {d \in {y} \X (1..12) \X (1..31) : d[3] <= DaysInMonth(y, d[2])}

BirthdayWindowDays == 7

(* get_contacts_upcoming_birthdays: one month, or the rest of this month   *)
(* OR the start of the month of today + days                               *)
get_contacts_upcoming_birthdays(db, day0, days) ==
    LET future_date == AddDays(day0, days)
    IN IF day0[2] = future_date[2]
       THEN {c \in db : /\ c.birthday[2] = day0[2]
                        /\ c.birthday[3] >= day0[3]
                        /\ c.birthday[3] <= future_date[3]}
       ELSE {c \in db : \/ /\ c.birthday[2] = day0[2]
                           /\ c.birthday[3] >= day0[3]
                        \/ /\ c.birthday[2] = future_date[2]
                           /\ c.birthday[3] <= future_date[3]}

------------------------------------------------------------------------------
(* Request layer: /contacts.  An exception no handler catches is answered  *)
(* with 500.                                                               *)

create_new_contact(db, seq, usersDb, contact_in) ==
    LET c == create_contact(db, seq, usersDb, contact_in)
    IN [status |-> IF c.err = "ok" THEN 201 ELSE 500, detail |-> c.err,
        contacts |-> c.contacts, seq |-> c.seq, row |-> c.row]

read_contact(db, contact_id) ==
    LET c == get_contact_by_id(db, contact_id)
    IN IF ~Found(c)
       THEN [status |-> 404, detail |-> "Contact not found.", row |-> NoRow]
       ELSE [status |-> 200, detail |-> "", row |-> c]

update_existing_contact(db, usersDb, contact_id, contact_update) ==
    LET u == update_contact(db, usersDb, contact_id, contact_update)
    IN IF u.err # "ok"
       THEN [status |-> 500, detail |-> u.err, contacts |-> u.contacts,
             row |-> NoRow]
       ELSE IF ~Found(u.row)
       THEN [status |-> 404, detail |-> "Contact not found.",
             contacts |-> u.contacts, row |-> NoRow]
       ELSE [status |-> 200, detail |-> "", contacts |-> u.contacts,
             row |-> u.row]

delete_existing_contact(db, contact_id) ==
    LET r == delete_contact(db, contact_id)
    IN IF ~Found(r.row)
       THEN [status |-> 404, detail |-> "Contact not found.",
             contacts |-> r.contacts]
       ELSE [status |-> 204, detail |-> "", contacts |-> r.contacts]

get_search_contacts(db, query) ==
    LET r == search_contacts_repo(db, query)
    IN IF r.err # "ok"
       THEN [status |-> 500, detail |-> r.err, rows |-> {}, repo |-> r]
       ELSE IF r.rows = {}
       THEN [status |-> 404,
             detail |-> "No contacts found for the given criteria.",
             rows |-> {}, repo |-> r]
       ELSE [status |-> 200, detail |-> "", rows |-> r.rows, repo |-> r]

get_coming_birthday_contacts(db, day0) ==
    [status |-> 200,
     rows |-> get_contacts_upcoming_birthdays(db, day0, BirthdayWindowDays)]

------------------------------------------------------------------------------
(* Inputs and initial stores of the contacts flows *)

Owner == UserRow(1, "ann", "a@x", hash_password("secret1"), 0, None, TRUE)

InitContactRows ==
    {ContactRow(i, IF i % 2 = 1 THEN "Al" ELSE "Bo", "Li", e, ph, Birthday0,
                info, 1) :
        i \in 1..MaxContacts, e \in Emails, ph \in Phones,
        info \in OtherInfos}

InitContactStores ==
    {S \in SUBSET InitContactRows : ContactsConstraintsOk(S, {Owner})}

ContactIds == 1..(MaxContacts + 1)

(* ContactUpdate payloads, model_dump(exclude_unset = True): no field, one *)
(* field, and two payloads of several fields.                              *)
ContactUpdatePayloads ==
    {<<>>}
    \cup {[first_name |-> v] : v \in {"Bo", None}}
    \cup {[email |-> v] : v \in Emails}
    \cup {[phone_number |-> v] : v \in Phones}
    \cup {[other_info |-> v] : v \in OtherInfos}
    \cup {[birthday |-> NoDate]}
    \cup {[first_name |-> "Bo", other_info |-> "hi"],
          [last_name |-> "Li", email |-> "b@x", phone_number |-> "+2"]}

(* UserUpdateSchema payloads: username, email, avatar, each optional *)
UserUpdatePayloads ==
    {<<>>}
    \cup {[username |-> v] : v \in {"bob", None}}
    \cup {[email |-> v] : v \in Emails}
    \cup {[avatar |-> "pic"]}
    \cup {[username |-> "bob", email |-> "b@x"]}

User2 == UserRow(2, "bob", "b@x", hash_password("secret1"), 0, None, FALSE)
Contact1 == ContactRow(1, "Al", "Li", "a@x", "+1", Birthday0, "hi", 1)
Contact2 == ContactRow(2, "Bo", "Li", "b@x", "+2", Birthday0, None, 1)

InitUserStoresRepo == {{Owner}, {Owner, User2}}
InitContactStoresRepo == {{Contact1}, {Contact1, Contact2}}

------------------------------------------------------------------------------
(* Actions of the contacts endpoints *)

CreateNewContact ==
    /\ contactSeq < MaxContacts + MaxInserts
    /\ \E contact_in \in ContactCreate :
        LET r == create_new_contact(contacts, contactSeq, users, contact_in)
        IN /\ contacts' = r.contacts
           /\ contactSeq' = r.seq
           /\ resp' = [op |-> "create_new_contact", status |-> r.status,
                       detail |-> r.detail, req |-> contact_in,
                       row |-> r.row]
           /\ UNCHANGED <<users, userSeq, clock, token, scheduled, today,
                          cache, inflight>>

ReadContact ==
    \E id \in ContactIds :
        LET r == read_contact(contacts, id)
        IN /\ resp' = [op |-> "read_contact", status |-> r.status,
                       detail |-> r.detail, id |-> id, row |-> r.row]
           /\ UNCHANGED <<users, userSeq, contacts, contactSeq, clock, token,
                          scheduled, today, cache, inflight>>

UpdateExistingContact ==
    \E id \in ContactIds, body \in ContactUpdatePayloads :
        LET r == update_existing_contact(contacts, users, id, body)
        IN /\ contacts' = r.contacts
           /\ resp' = [op |-> "update_contact", status |-> r.status,
                       detail |-> r.detail, id |-> id, payload |-> body,
                       row |-> r.row]
           /\ UNCHANGED <<users, userSeq, contactSeq, clock, token,
                          scheduled, today, cache, inflight>>

DeleteExistingContact ==
    \E id \in ContactIds :
        LET r == delete_existing_contact(contacts, id)
        IN /\ contacts' = r.contacts
           /\ resp' = [op |-> "delete_contact", status |-> r.status,
                       detail |-> r.detail, id |-> id]
           /\ UNCHANGED <<users, userSeq, contactSeq, clock, token,
                          scheduled, today, cache, inflight>>

GetSearchContacts ==
    \E query \in FilterMappings :
        LET r == get_search_contacts(contacts, query)
        IN /\ resp' = [op |-> "get_search_contacts", status |-> r.status,
                       detail |-> r.detail, query |-> query,
                       rows |-> r.rows, repo |-> r.repo]
           /\ UNCHANGED <<users, userSeq, contacts, contactSeq, clock, token,
                          scheduled, today, cache, inflight>>

InitContacts ==
    /\ users = {Owner}
    /\ userSeq = 1
    /\ contacts \in InitContactStores
    /\ contactSeq = MaxContacts
    /\ clock = 0
    /\ token = NoToken
    /\ scheduled = <<>>
    /\ today = <<2025, 1, 1>>
    /\ resp = NoResp
    /\ cache = EmptyCache
    /\ inflight = NoRequests

NextContacts ==
    \/ CreateNewContact
    \/ ReadContact
    \/ UpdateExistingContact
    \/ DeleteExistingContact
    \/ GetSearchContacts

SpecContacts == InitContacts /\ [][NextContacts]_vars

------------------------------------------------------------------------------
(* The repository's partial updates, called on any store *)

RepoUpdateContact ==
    \E id \in ContactIds, body \in ContactUpdatePayloads :
        LET r == update_contact(contacts, users, id, body)
        IN /\ contacts' = r.contacts
           /\ resp' = [op |-> "update_contact", status |-> 0,
                       detail |-> r.err, id |-> id, payload |-> body,
                       row |-> r.row]
           /\ UNCHANGED <<users, userSeq, contactSeq, clock, token,
                          scheduled, today, cache, inflight>>

RepoUpdateUser ==
    \E id \in 1..(MaxUsers + 1), body \in UserUpdatePayloads :
        LET r == update_user(users, id, body)
        IN /\ users' = r.users
           /\ resp' = [op |-> "update_user", status |-> 0,
                       detail |-> r.err, id |-> id, payload |-> body,
                       row |-> r.row]
           /\ UNCHANGED <<userSeq, contacts, contactSeq, clock, token,
                          scheduled, today, cache, inflight>>

InitRepo ==
    /\ users \in InitUserStoresRepo
    /\ userSeq = MaxUsers
    /\ contacts \in InitContactStoresRepo
    /\ contactSeq = MaxContacts
    /\ clock = 0
    /\ token = NoToken
    /\ scheduled = <<>>
    /\ today = <<2025, 1, 1>>
    /\ resp = NoResp
    /\ cache = EmptyCache
    /\ inflight = NoRequests

NextRepo ==
    \/ RepoUpdateContact
    \/ RepoUpdateUser

SpecRepo == InitRepo /\ [][NextRepo]_vars

------------------------------------------------------------------------------
(* The birthday window on every day of a leap and of a common year *)

AllBirthdays == DatesOfYear(2000)
AllToday == DatesOfYear(2024) \cup DatesOfYear(2025)

GetComingBirthdayContacts ==
    LET r == get_coming_birthday_contacts(contacts, today)
    IN /\ resp' = [op |-> "upcoming_birthdays", status |-> r.status,
                   rows |-> r.rows]
       /\ UNCHANGED <<users, userSeq, contacts, contactSeq, clock, token,
                      scheduled, today, cache, inflight>>

InitBirthdays ==
    /\ users = {Owner}
    /\ userSeq = 1
    /\ \E b \in AllBirthdays :
        contacts = {ContactRow(1, "Al", "Li", "a@x", "+1", b, None, 1)}
    /\ contactSeq = 1
    /\ clock = 0
    /\ token = NoToken
    /\ scheduled = <<>>
    /\ today \in AllToday
    /\ resp = NoResp
    /\ cache = EmptyCache
    /\ inflight = NoRequests

NextBirthdays == GetComingBirthdayContacts

SpecBirthdays == InitBirthdays /\ [][NextBirthdays]_vars

------------------------------------------------------------------------------
(* Properties of the contacts flows *)

Ids(db) == {r.id : r \in db}

(* The update of row id by payload, from store db to store db2: no other   *)
(* row differs, and the row keeps every field the payload does not carry.  *)
FrameKept(db, db2, id, payload) ==
    /\ Ids(db2) = Ids(db)
    /\ \A r \in db : (r.id # id) => (r \in db2)
    /\ \A r \in db, r2 \in db2 :
        (r.id = id /\ r2.id = id)
            => \A F \in (DOMAIN r) \ (DOMAIN payload) : r2[F] = r[F]

(* An accepted update stores the payload's value in every field it carries *)
PayloadStored(db2, id, payload) ==
    \A r2 \in db2 :
        (r2.id = id) => \A F \in DOMAIN payload : r2[F] = payload[F]

(* C6: a partial update (update_contact, update_user) changes exactly the  *)
(* fields present in the payload: every absent field keeps its value and   *)
(* no other row changes.                                                   *)
C6_PartialUpdateFrame ==
    [][/\ (resp'.op = "update_contact")
            => /\ FrameKept(contacts, contacts', resp'.id, resp'.payload)
               /\ (resp'.detail = "ok")
                    => PayloadStored(contacts', resp'.id, resp'.payload)
               /\ users' = users
       /\ (resp'.op = "update_user")
            => /\ FrameKept(users, users', resp'.id, resp'.payload)
               /\ (resp'.detail = "ok")
                    => PayloadStored(users', resp'.id, resp'.payload)
               /\ contacts' = contacts]_vars

C6_Witness ==
    /\ resp.op = "update_contact"
    /\ resp.detail = "ok"
    /\ DOMAIN resp.payload = {"first_name"}
    /\ \E r \in contacts :
        /\ r.id = resp.id
        /\ r.first_name = resp.payload.first_name
        /\ r.other_info = "hi"
    /\ \E r \in contacts : r.id # resp.id

MonthDay(d) == <<d[2], d[3]>>

(* The contacts whose birthday month/day is the month/day of one of the    *)
(* dates day0 .. day0 + days                                               *)
InWindow(db, day0, days) ==
    {c \in db :
        \E k \in 0..days : MonthDay(AddDays(day0, k)) = MonthDay(c.birthday)}

(* C7: get_contacts_upcoming_birthdays with the window of 7 days returns   *)
(* exactly the contacts whose birthday month/day falls on one of the dates *)
(* today .. today+7, month and year boundaries included.                   *)
C7_BirthdayWindowExact ==
    (resp.op = "upcoming_birthdays")
        => (resp.rows = InWindow(contacts, today, BirthdayWindowDays))

Unused(db, req) ==
    \A c \in db : c.email # req.email /\ c.phone_number # req.phone_number

(* C9: creating a contact with unused email and phone answers 201 with a   *)
(* generated id; GET /contacts/{id} returns the stored fields; DELETE      *)
(* removes the row and GET of an id that is not stored answers 404.        *)
C9_CreateGetDelete ==
    [][/\ (resp'.op = "create_new_contact" /\ Unused(contacts, resp'.req))
            => /\ resp'.status = 201
               /\ resp'.row.id \notin Ids(contacts)
               /\ resp'.row \in contacts'
               /\ \A F \in DOMAIN resp'.req : resp'.row[F] = resp'.req[F]
       /\ (resp'.op = "read_contact")
            => IF resp'.id \in Ids(contacts)
               THEN resp'.status = 200 /\ resp'.row \in contacts
               ELSE resp'.status = 404
       /\ (resp'.op = "delete_contact" /\ resp'.id \in Ids(contacts))
            => (resp'.status = 204 /\ resp'.id \notin Ids(contacts'))]_vars

UniqueContacts ==
    \A c, e \in contacts :
        (c.email = e.email \/ c.phone_number = e.phone_number) => (c = e)

(* C10: creating a contact whose email or phone_number is that of a stored *)
(* contact answers 409 and leaves the store unchanged, and no two stored   *)
(* contacts ever share an email or a phone number.                         *)
C10_DuplicateContactConflict ==
    /\ []UniqueContacts
    /\ [][(resp'.op = "create_new_contact" /\ ~Unused(contacts, resp'.req))
            => (resp'.status = 409 /\ contacts' = contacts)]_vars

------------------------------------------------------------------------------
(* Properties of identity resolution *)

CacheHit(c, e, now) == e \in DOMAIN c /\ c[e].expires >= now

(* C16: get_current_user looks the identity up in the cache first; on a    *)
(* miss it reads the user from the database and stores it in the cache     *)
(* with a time-to-live, and a resolution that hits the cache does not      *)
(* query the database.                                                     *)
C16_CacheFirst ==
    [][(/\ resp'.op = "get_current_user"
        /\ ValidToken(resp'.tok, "access_token", clock)
        /\ TokenEmail(resp'.tok) # None)
        => IF CacheHit(cache, TokenEmail(resp'.tok), clock)
           THEN resp'.db_reads = 0
           ELSE /\ resp'.db_reads = 1
                /\ (resp'.status = 200)
                    => CacheHit(cache', TokenEmail(resp'.tok), clock)]_vars

(* C17: get_current_user returns a user only for a correctly signed,       *)
(* unexpired token of scope access_token that carries an email claim of a  *)
(* stored user, and then returns that stored user; in every other case it  *)
(* raises 401.                                                             *)
C17_CurrentUserOnlyValid ==
    (resp.op = "get_current_user")
        => IF /\ ValidToken(resp.tok, "access_token", clock)
              /\ TokenEmail(resp.tok) # None
              /\ EmailStored(users, TokenEmail(resp.tok))
           THEN /\ resp.status = 200
                /\ resp.user \in users
                /\ resp.user.email = TokenEmail(resp.tok)
           ELSE /\ resp.status = 401
                /\ ~Found(resp.user)

C17_Witness ==
    /\ resp.op = "get_current_user"
    /\ resp.status = 200
    /\ resp.user \in users
    /\ resp.user.email = TokenEmail(resp.tok)
    /\ Cardinality(users) = 2

------------------------------------------------------------------------------
(* Request layer: /users, POST /auth/request_email, POST /auth/login *)

(* An await accepts a coroutine; hash_password returns a str *)
IsAwaitable(v) == v[1] = "coroutine"

(* POST /users/ *)
create_new_user(db, seq, user_in, now) ==
    LET hashed == hash_password(user_in.password)
    IN IF ~IsAwaitable(hashed)
       THEN [status |-> 500, detail |-> "TypeError", users |-> db,
             seq |-> seq, body |-> <<>>]
       ELSE LET c == create_user(db, seq, user_in, hashed, now)
            IN IF c.err # "ok"
               THEN [status |-> 500, detail |-> c.err, users |-> c.users,
                     seq |-> c.seq, body |-> <<>>]
               ELSE LET out == serialize_user(c.row)
                    IN IF out.err # "ok"
                       THEN [status |-> 500, detail |-> out.err,
                             users |-> c.users, seq |-> c.seq, body |-> <<>>]
                       ELSE [status |-> 201, detail |-> "",
                             users |-> c.users, seq |-> c.seq,
                             body |-> <<out.body>>]

(* The orders in which a SELECT without ORDER BY may return the rows *)
Orders(db) ==
    {o \in [1..Cardinality(db) -> Ids(db)] :
        \A i, j \in DOMAIN o : (o[i] = o[j]) => (i = j)}

Min(a, b) == IF a <= b THEN a ELSE b

(* select(UserModel).offset(skip).limit(limit) *)
get_users(db, skip, limit, order) ==
    LET ids == SubSeq(order, skip + 1, Min(skip + limit, Len(order)))
    IN [i \in DOMAIN ids |-> get_user_by_id(db, ids[i])]

(* GET /users/ *)
get_all_users(db, skip, limit, order) ==
    LET rows == get_users(db, skip, limit, order)
        outs == [i \in DOMAIN rows |-> serialize_user(rows[i])]
    IN IF \E i \in DOMAIN outs : outs[i].err # "ok"
       THEN [status |-> 500, detail |-> "ResponseValidationError",
             body |-> <<>>]
       ELSE [status |-> 200, detail |-> "",
             body |-> [i \in DOMAIN outs |-> outs[i].body]]

(* UserRepository.get_user_by_id(self, user_id) takes one argument *)
GetUserByIdParams == 1

(* read_user calls user_repo.get_user_by_id(db, user_id) *)
ReadUserCallArgs == 2

(* GET /users/{user_id} *)
read_user(db, user_id) ==
    IF ReadUserCallArgs # GetUserByIdParams
    THEN [status |-> 500, detail |-> "TypeError", body |-> <<>>]
    ELSE LET db_user == get_user_by_id(db, user_id)
         IN IF ~Found(db_user)
            THEN [status |-> 404, detail |-> "User not found.",
                  body |-> <<>>]
            ELSE LET out == serialize_user(db_user)
                 IN IF out.err # "ok"
                    THEN [status |-> 500, detail |-> out.err, body |-> <<>>]
                    ELSE [status |-> 200, detail |-> "",
                          body |-> <<out.body>>]

(* The attributes of a UserRepository instance *)
UserRepositoryAttrs == UserRepositoryMethods \cup {"db"}

(* POST /auth/request_email.  The task for a stored unconfirmed user is    *)
(* added first; the handler then reads user_repo.email and                 *)
(* user_repo.username, and a handler that raises runs no added task.       *)
request_email(db, body) ==
    LET user == get_user_by_email(db, body.email)
        tasks == IF Found(user)
                 THEN <<[email |-> user.email, username |-> user.username]>>
                 ELSE <<>>
    IN IF Found(user) /\ user.confirmed
       THEN [status |-> 200, detail |-> "Your email is already confirmed",
             mails |-> <<>>]
       ELSE IF ~({"email", "username"} \subseteq UserRepositoryAttrs)
            THEN [status |-> 500, detail |-> "AttributeError",
                  mails |-> <<>>]
            ELSE [status |-> 200, detail |-> "Confirmation email sent",
                  mails |-> tasks]

(* The paths the /auth router registers a handler for *)
AuthRoutes == {"signup", "confirmed_email", "request_email"}

auth_router(path) ==
    IF path \in AuthRoutes
    THEN [status |-> 200, detail |-> "handler"]
    ELSE [status |-> 404, detail |-> "Not Found"]

verify_password(plain_password, hashed_password) ==
    hashed_password = hash_password(plain_password)

RequestEmailSchema == [email : Emails]
UserLoginSchema == [email : Emails, password : Passwords \cup {"wrong00"}]
Skips == {0, 1}
Limits == {1, 100}
UserIds == 1..(MaxUsers + 1)

CreateNewUser ==
    \E user_in \in UserCreateSchema :
        LET r == create_new_user(users, userSeq, user_in, clock)
        IN /\ users' = r.users
           /\ userSeq' = r.seq
           /\ resp' = [op |-> "create_new_user", status |-> r.status,
                       detail |-> r.detail, req |-> user_in,
                       body |-> r.body]
           /\ UNCHANGED <<contacts, contactSeq, clock, token, scheduled,
                          today, cache, inflight>>

GetAllUsers ==
    \E skip \in Skips, limit \in Limits, order \in Orders(users) :
        LET r == get_all_users(users, skip, limit, order)
        IN /\ resp' = [op |-> "get_all_users", status |-> r.status,
                       detail |-> r.detail, skip |-> skip, limit |-> limit,
                       order |-> order, body |-> r.body]
           /\ UNCHANGED <<users, userSeq, contacts, contactSeq, clock, token,
                          scheduled, today, cache, inflight>>

ReadUser ==
    \E user_id \in UserIds :
        LET r == read_user(users, user_id)
        IN /\ resp' = [op |-> "read_user", status |-> r.status,
                       detail |-> r.detail, id |-> user_id, body |-> r.body]
           /\ UNCHANGED <<users, userSeq, contacts, contactSeq, clock, token,
                          scheduled, today, cache, inflight>>

RequestEmail ==
    \E body \in RequestEmailSchema :
        LET r == request_email(users, body)
        IN /\ scheduled' = scheduled \o r.mails
           /\ resp' = [op |-> "request_email", status |-> r.status,
                       detail |-> r.detail, req |-> body]
           /\ UNCHANGED <<users, userSeq, contacts, contactSeq, clock, token,
                          today, cache, inflight>>

Login ==
    \E body \in UserLoginSchema :
        LET r == auth_router("login")
        IN /\ resp' = [op |-> "login", status |-> r.status,
                       detail |-> r.detail, req |-> body]
           /\ UNCHANGED <<users, userSeq, contacts, contactSeq, clock, token,
                          scheduled, today, cache, inflight>>

NextUsers ==
    \/ Signup
    \/ CreateNewUser
    \/ GetAllUsers
    \/ ReadUser
    \/ RequestEmail
    \/ Login

SpecUsers == Init /\ [][NextUsers]_vars

------------------------------------------------------------------------------
(* Properties of the users router, request_email and login *)

(* C11: a lookup by id answers 404 and changes nothing when no row has the *)
(* id, and returns the row (204 for delete) when one has: GET, PATCH and   *)
(* DELETE /contacts/{id} and GET /users/{id}.                              *)
C11_MissingIdIs404 ==
    [][/\ (resp'.op \in {"read_contact", "update_contact"})
            => IF resp'.id \in Ids(contacts)
               THEN resp'.status = 200 /\ resp'.row.id = resp'.id
               ELSE resp'.status = 404 /\ StoreUnchanged
       /\ (resp'.op = "delete_contact")
            => IF resp'.id \in Ids(contacts)
               THEN resp'.status = 204
               ELSE resp'.status = 404 /\ StoreUnchanged
       /\ (resp'.op = "read_user")
            => IF resp'.id \in Ids(users)
               THEN /\ resp'.status = 200
                    /\ Len(resp'.body) = 1
                    /\ resp'.body[1].id = resp'.id
               ELSE resp'.status = 404 /\ StoreUnchanged]_vars

CredentialsMatch(db, form) ==
    \E u \in db : /\ u.email = form.email
                  /\ verify_password(form.password, u.hashed_password)
                  /\ u.confirmed

(* C12: login answers 200 and issues a token of scope "access_token" for   *)
(* the email when the credentials match a stored confirmed user; it        *)
(* answers 401 and issues no token otherwise.                              *)
C12_LoginIssuesAccessToken ==
    [][(resp'.op = "login")
        => IF CredentialsMatch(users, resp'.req)
           THEN /\ resp'.status = 200
                /\ ValidToken(token', "access_token", clock)
                /\ TokenEmail(token') = resp'.req.email
           ELSE resp'.status = 401 /\ token' = token]_vars

ConfirmedStored(db, e) == \E u \in db : u.email = e /\ u.confirmed

(* C13: request_email hands one confirmation email for the address to the  *)
(* dispatcher exactly when a stored unconfirmed user has it; for a         *)
(* confirmed user it answers "Your email is already confirmed"; it never   *)
(* changes a stored user.                                                  *)
C13_RequestEmailSendsIffUnconfirmed ==
    [][(resp'.op = "request_email")
        => /\ users' = users
           /\ IF UnconfirmedStored(users, resp'.req.email)
              THEN /\ Len(scheduled') = Len(scheduled) + 1
                   /\ scheduled'[Len(scheduled')].email = resp'.req.email
              ELSE scheduled' = scheduled
           /\ ConfirmedStored(users, resp'.req.email)
                => resp'.detail = "Your email is already confirmed"]_vars

(* The store with every password hash replaced by another one *)
Rehash(db) ==
    {[u EXCEPT !.hashed_password = hash_password("another1")] : u \in db}

NoSecretField(body) ==
    \A i \in DOMAIN body :
        DOMAIN body[i] \cap {"password", "hashed_password"} = {}

SameResponse(r, rsp) == r.status = rsp.status /\ r.body = rsp.body

(* C14: the response of signup, POST /users, GET /users and                *)
(* GET /users/{id} carries no password and no hash, and is the response    *)
(* the endpoint gives when the stored users differ in hashed_password only.*)
C14_NoPasswordInResponses ==
    [][/\ (resp'.op \in {"signup", "create_new_user", "get_all_users",
                         "read_user"})
            => NoSecretField(resp'.body)
       /\ (resp'.op = "signup")
            => SameResponse(signup(Rehash(users), userSeq, resp'.req, clock),
                            resp')
       /\ (resp'.op = "create_new_user")
            => SameResponse(create_new_user(Rehash(users), userSeq,
                                            resp'.req, clock), resp')
       /\ (resp'.op = "get_all_users")
            => SameResponse(get_all_users(Rehash(users), resp'.skip,
                                          resp'.limit, resp'.order), resp')
       /\ (resp'.op = "read_user")
            => SameResponse(read_user(Rehash(users), resp'.id), resp')]_vars

C14_Witness ==
    /\ resp.op = "get_all_users"
    /\ Len(resp.order) = 2
    /\ resp.skip = 0
    /\ resp.limit = 100
    /\ NoSecretField(resp.body)

------------------------------------------------------------------------------
(* The email service and the token round trip *)

(* fm.send_message: delivered, or one of the two exceptions the service    *)
(* logs and re-raises                                                      *)
SmtpOutcomes == {"ok", "ConnectionErrors", "Exception"}

(* AuthService.send_confirmation_email: a verification token for the       *)
(* address, rendered into the message; the message carries the token to    *)
(* the recipient when the send succeeds.                                   *)
send_confirmation_email(email, username, smtp, now) ==
    LET tok == create_jwt_token([email |-> email], "verification_token",
                                ExpiresDeltaDefault, now)
    IN [err |-> smtp, token |-> tok, recipient |-> email,
        delivered |-> (smtp = "ok")]

SendConfirmationEmail ==
    \E email \in Emails, username \in Usernames, smtp \in SmtpOutcomes :
        LET r == send_confirmation_email(email, username, smtp, clock)
        IN /\ token' = IF r.delivered THEN r.token ELSE token
           /\ resp' = [op |-> "send_confirmation_email", status |-> 0,
                       detail |-> r.err, email |-> email, tok |-> r.token]
           /\ UNCHANGED <<users, userSeq, contacts, contactSeq, clock,
                          scheduled, today, cache, inflight>>

DecodeJwtToken ==
    \E tok \in Presentable, scope \in Scopes :
        LET r == decode_jwt_token(tok, scope, clock)
        IN /\ resp' = [op |-> "decode_jwt_token", status |-> r.status,
                       detail |-> r.detail, tok |-> tok, scope |-> scope,
                       email |-> r.email]
           /\ UNCHANGED <<users, userSeq, contacts, contactSeq, clock, token,
                          scheduled, today, cache, inflight>>

InitService ==
    /\ users \in InitUserStoresRepo
    /\ userSeq = MaxUsers
    /\ contacts = {}
    /\ contactSeq = 0
    /\ clock = 0
    /\ token = NoToken
    /\ scheduled = <<>>
    /\ today = <<FALSE, 1, 1>>
    /\ resp = NoResp
    /\ cache = EmptyCache
    /\ inflight = NoRequests

NextService ==
    \/ Signup
    \/ CreateJwtToken
    \/ SendConfirmationEmail
    \/ DecodeJwtToken
    \/ ConfirmedEmail
    \/ Tick

SpecService == InitService /\ [][NextService]_vars

------------------------------------------------------------------------------
(* Concurrent signups: a request is suspended at the await of the lookup   *)
(* and resumed later, other requests running in between.                   *)

MaxInflight == 2

(* signup up to the point where get_user_by_email has returned *)
SignupLookup ==
    /\ Len(inflight) < MaxInflight
    /\ \E body \in UserCreateSchema :
        IF Found(get_user_by_email(users, body.email))
        THEN /\ resp' = [op |-> "signup", stage |-> "lookup",
                         status |-> 409,
                         detail |-> "Account already exists", req |-> body]
             /\ UNCHANGED <<users, userSeq, contacts, contactSeq, clock,
                            token, scheduled, today, cache, inflight>>
        ELSE /\ inflight' = Append(inflight, body)
             /\ resp' = [op |-> "signup_lookup", stage |-> "lookup",
                         status |-> 0, detail |-> "", req |-> body]
             /\ UNCHANGED <<users, userSeq, contacts, contactSeq, clock,
                            token, scheduled, today, cache>>

(* a suspended signup runs to its response *)
SignupResume ==
    \E i \in DOMAIN inflight :
        LET body == inflight[i]
            r == signup_resume(users, userSeq, body, clock)
        IN /\ users' = r.users
           /\ userSeq' = r.seq
           /\ scheduled' = scheduled \o r.mails
           /\ inflight' = [j \in 1..(Len(inflight) - 1) |->
                              IF j < i THEN inflight[j] ELSE inflight[j + 1]]
           /\ resp' = [op |-> "signup", stage |-> "resumed",
                       status |-> r.status, detail |-> r.detail,
                       req |-> body]
           /\ UNCHANGED <<contacts, contactSeq, clock, token, today, cache>>

NextRace ==
    \/ SignupLookup
    \/ SignupResume

SpecRace == Init /\ [][NextRace]_vars

------------------------------------------------------------------------------
(* Properties of concurrency, the token round trip, dispatch and search    *)

(* C15: of concurrent signups with one email, at most one stores a row,    *)
(* and a signup that resumes after its lookup answers 201 when the email   *)
(* is still free and 409 when another request has stored it meanwhile;     *)
(* it never ends in an unhandled error.                                    *)
C15_ConcurrentSignup ==
    /\ []UniqueUserEmail
    /\ [][(resp'.op = "signup" /\ resp'.stage = "resumed")
            => IF EmailStored(users, resp'.req.email)
               THEN resp'.status = 409 /\ users' = users
               ELSE /\ resp'.status = 201
                    /\ Cardinality(users') = Cardinality(users) + 1
                    /\ EmailStored(users', resp'.req.email)]_vars

(* tok is a token create_jwt_token issued for email e with scope s and has *)
(* not expired at time now                                                 *)
IssuedFor(tok, e, s, now) ==
    \E t \in 0..MaxClock :
        /\ tok = create_jwt_token([email |-> e], s, ExpiresDeltaDefault, t)
        /\ now <= t + ExpiresDeltaDefault

(* C18: decoding with scope S an unexpired token issued for email E with   *)
(* scope S returns exactly E, and presenting the token of the confirmation *)
(* email of E to confirmed_email confirms the stored user E and changes no *)
(* other user.                                                             *)
C18_TokenRoundTrip ==
    /\ [](\A e \in Emails :
            (/\ resp.op = "decode_jwt_token"
             /\ IssuedFor(resp.tok, e, resp.scope, clock))
                => (resp.status = 200 /\ resp.email = e))
    /\ [][\A e \in Emails :
            (/\ resp'.op = "confirmed_email"
             /\ IssuedFor(resp'.tok, e, "verification_token", clock)
             /\ UnconfirmedStored(users, e))
                => users' = {IF u.email = e
                             THEN [u EXCEPT !.confirmed = TRUE]
                             ELSE u : u \in users}]_vars

(* C19: a signup of a free email answers 201 and leaves its confirmation   *)
(* email to a dispatch that runs after the response; the dispatch, failed  *)
(* or not, changes no stored user.                                         *)
C19_DispatchAfterResponse ==
    /\ [][(resp'.op = "signup" /\ ~EmailStored(users, resp'.req.email))
            => /\ resp'.status = 201
               /\ Len(scheduled') = Len(scheduled) + 1
               /\ scheduled'[Len(scheduled')].email = resp'.req.email]_vars
    /\ [][(resp'.op = "send_confirmation_email")
            => (users' = users /\ userSeq' = userSeq)]_vars

Restrict(f, K) == [k \in K |-> f[k]]

(* C20: a search answers as the search on the recognized keys alone: a key *)
(* that is not a contact column raises no error and does not change the    *)
(* result.                                                                 *)
C20_UnknownKeysIgnored ==
    (resp.op = "get_search_contacts")
        => resp.repo = search_contacts_repo(
                           contacts,
                           Restrict(resp.query,
                                    DOMAIN resp.query \cap ContactColumns))

------------------------------------------------------------------------------
(* Properties of search, deletion, listing, callers and the user lifecycle *)

(* p occurs in t as a run of consecutive characters *)
Contains(p, t) ==
    \E i \in 0..(Len(t) - Len(p)) : SubSeq(t, i + 1, i + Len(p)) = p

(* the pattern occurs in the field value, letter case ignored *)
SubstringMatch(value, pattern) ==
    /\ value # None
    /\ Contains(LowerSeq(Chars(pattern)), LowerSeq(Chars(value)))

(* C21: a search whose keys are all text columns returns, without error,   *)
(* exactly the stored contacts in which, for every key, the pattern occurs *)
(* as a substring of the field value compared case-insensitively.          *)
C21_SearchExactMatches ==
    (/\ resp.op = "get_search_contacts"
     /\ DOMAIN resp.query # {}
     /\ DOMAIN resp.query \subseteq TextColumns)
        => /\ resp.repo.err = "ok"
           /\ resp.repo.rows =
                {c \in contacts :
                    \A f \in DOMAIN resp.query :
                        SubstringMatch(c[f], resp.query[f])}

------------------------------------------------------------------------------
(* The repository's deletes and paginated lists, called on any store *)

(* UserRepository.delete_user.  The relationship ContactsModel.user        *)
(* (backref "contacts") declares no delete cascade, so the unit of work    *)
(* de-associates the user's contacts first: it sets their user_id to NULL. *)
(* user_id is NOT NULL, so the commit of a user who has contacts raises    *)
(* IntegrityError and changes nothing.                                     *)
delete_user(db, contactsDb, user_id) ==
    LET db_user == get_user_by_id(db, user_id)
    IN IF ~Found(db_user)
       THEN [err |-> "ok", users |-> db, contacts |-> contactsDb,
             row |-> NoRow]
       ELSE LET detached == {IF c.user_id = user_id
                             THEN [c EXCEPT !.user_id = NoId]
                             ELSE c : c \in contactsDb}
            IN IF ContactsConstraintsOk(detached, db \ {db_user})
               THEN [err |-> "ok", users |-> db \ {db_user},
                     contacts |-> detached, row |-> db_user]
               ELSE [err |-> "IntegrityError", users |-> db,
                     contacts |-> contactsDb, row |-> NoRow]

(* select(ContactsModel).offset(skip).limit(limit) *)
get_contacts(db, skip, limit, order) ==
    LET ids == SubSeq(order, skip + 1, Min(skip + limit, Len(order)))
    IN [i \in DOMAIN ids |-> get_contact_by_id(db, ids[i])]

(* The page a client fetched with its previous request, when that request  *)
(* was a list of the same table                                            *)
NoPage == [skip |-> 0, limit |-> 0, rows |-> <<>>]

PrevPage(op) ==
    IF resp.op = op
    THEN [skip |-> resp.skip, limit |-> resp.limit, rows |-> resp.rows]
    ELSE NoPage

RepoDeleteContact ==
    \E id \in ContactIds :
        LET r == delete_contact(contacts, id)
        IN /\ contacts' = r.contacts
           /\ resp' = [op |-> "delete_contact", status |-> 0,
                       detail |-> "ok", id |-> id, row |-> r.row]
           /\ UNCHANGED <<users, userSeq, contactSeq, clock, token,
                          scheduled, today, cache, inflight>>

RepoDeleteUser ==
    \E id \in UserIds :
        LET r == delete_user(users, contacts, id)
        IN /\ users' = r.users
           /\ contacts' = r.contacts
           /\ resp' = [op |-> "delete_user", status |-> 0,
                       detail |-> r.err, id |-> id, row |-> r.row]
           /\ UNCHANGED <<userSeq, contactSeq, clock, token, scheduled,
                          today, cache, inflight>>

RepoGetContacts ==
    \E skip \in Skips, limit \in Limits, order \in Orders(contacts) :
        /\ resp' = [op |-> "get_contacts", status |-> 0, skip |-> skip,
                    limit |-> limit,
                    rows |-> get_contacts(contacts, skip, limit, order),
                    prev |-> PrevPage("get_contacts")]
        /\ UNCHANGED <<users, userSeq, contacts, contactSeq, clock, token,
                       scheduled, today, cache, inflight>>

RepoGetUsers ==
    \E skip \in Skips, limit \in Limits, order \in Orders(users) :
        /\ resp' = [op |-> "get_users", status |-> 0, skip |-> skip,
                    limit |-> limit,
                    rows |-> get_users(users, skip, limit, order),
                    prev |-> PrevPage("get_users")]
        /\ UNCHANGED <<users, userSeq, contacts, contactSeq, clock, token,
                       scheduled, today, cache, inflight>>

NextStore ==
    \/ RepoDeleteContact
    \/ RepoDeleteUser
    \/ RepoGetContacts
    \/ RepoGetUsers

SpecStore == InitRepo /\ [][NextStore]_vars

RowOf(db, id) == CHOOSE r \in db : r.id = id

(* C22: delete_contact and delete_user on a stored id remove exactly that  *)
(* row and return it, every other row of either table staying as it was;   *)
(* on an id that is not stored they return no row and change nothing.      *)
C22_DeleteExactlyOne ==
    [][/\ (resp'.op = "delete_contact")
            => IF resp'.id \in Ids(contacts)
               THEN /\ resp'.row = RowOf(contacts, resp'.id)
                    /\ contacts' = contacts \ {resp'.row}
                    /\ users' = users
               ELSE /\ ~Found(resp'.row)
                    /\ contacts' = contacts
                    /\ users' = users
       /\ (resp'.op = "delete_user")
            => IF resp'.id \in Ids(users)
               THEN /\ resp'.row = RowOf(users, resp'.id)
                    /\ users' = users \ {resp'.row}
                    /\ contacts' = contacts
               ELSE /\ ~Found(resp'.row)
                    /\ users' = users
                    /\ contacts' = contacts]_vars

Range(s) == {s[i] : i \in DOMAIN s}

PageOk(db, page) ==
    /\ Len(page.rows) <= page.limit
    /\ Range(page.rows) \subseteq db
    /\ \A i, j \in DOMAIN page.rows :
        (page.rows[i] = page.rows[j]) => (i = j)
    /\ (page.skip >= Cardinality(db)) => (page.rows = <<>>)

(* the pages skip = 0 and skip = limit of a store of at most 2 * limit     *)
(* rows hold every stored row exactly once                                 *)
WalkOk(db, first, second) ==
    (/\ first.limit = second.limit
     /\ first.skip = 0
     /\ second.skip = second.limit
     /\ Cardinality(db) <= 2 * second.limit)
        => /\ Range(first.rows) \cup Range(second.rows) = db
           /\ Range(first.rows) \cap Range(second.rows) = {}

(* C23: a page of get_contacts or get_users holds at most limit rows, all  *)
(* stored and none repeated, and none when skip is at least the number of  *)
(* stored rows; listing changes no row; and the consecutive pages of a     *)
(* walk over an unchanged store hold every stored row exactly once.        *)
C23_Pagination ==
    /\ []((resp.op = "get_contacts")
            => (PageOk(contacts, resp) /\ WalkOk(contacts, resp.prev, resp)))
    /\ []((resp.op = "get_users")
            => (PageOk(users, resp) /\ WalkOk(users, resp.prev, resp)))
    /\ [][(resp'.op \in {"get_contacts", "get_users"})
            => (users' = users /\ contacts' = contacts)]_vars

------------------------------------------------------------------------------
(* The contacts router as a caller sees it: a request carries a route, an  *)
(* Authorization header and the route's parameters; a handler receives     *)
(* the parameters its signature declares.                                  *)

(* No header, or an access token of one of the users *)
Authorizations ==
    {NoToken}
    \cup {create_jwt_token([email |-> e], "access_token",
                           ExpiresDeltaDefault, 0) : e \in Emails}

(* GET /contacts/ *)
get_all_contacts(db, skip, limit, order) ==
    [status |-> 200, detail |-> "",
     rows |-> get_contacts(db, skip, limit, order)]

(* The handler of the route, called with its declared parameters *)
run_endpoint_function(db, seq, usersDb, request, order) ==
    CASE request.route = "create_new_contact"
            -> create_new_contact(db, seq, usersDb, request.body)
      [] request.route = "get_all_contacts"
            -> get_all_contacts(db, request.skip, request.limit, order)
      [] request.route = "read_contact"
            -> read_contact(db, request.contact_id)
      [] request.route = "update_existing_contact"
            -> update_existing_contact(db, usersDb, request.contact_id,
                                       request.body)
      [] request.route = "delete_existing_contact"
            -> delete_existing_contact(db, request.contact_id)
      [] request.route = "get_search_contacts"
            -> get_search_contacts(db, request.query)

contacts_router_mut_auth(db, seq, usersDb, request, order) ==
    LET out == IF request.authorization = NoToken
               THEN [status |-> 401, detail |-> "Not authenticated"]
               ELSE run_endpoint_function(db, seq, usersDb, request, order)
    IN [status |-> out.status,
        contacts |-> IF "contacts" \in DOMAIN out THEN out.contacts ELSE db,
        seq |-> IF "seq" \in DOMAIN out THEN out.seq ELSE seq,
        out |-> out]

(* No route of the router declares a dependency on the caller: the answer  *)
(* is the handler's, the store and the id sequence are what it leaves.     *)
contacts_router(db, seq, usersDb, request, order) ==
    LET out == run_endpoint_function(db, seq, usersDb, request, order)
    IN [status |-> out.status,
        contacts |-> IF "contacts" \in DOMAIN out THEN out.contacts ELSE db,
        seq |-> IF "seq" \in DOMAIN out THEN out.seq ELSE seq,
        out |-> out]

Serve(request, order) ==
    LET r == contacts_router(contacts, contactSeq, users, request, order)
    IN /\ contacts' = r.contacts
       /\ contactSeq' = r.seq
       /\ resp' = [op |-> "contacts_router", status |-> r.status,
                   request |-> request, order |-> order, out |-> r.out]
       /\ UNCHANGED <<users, userSeq, clock, token, scheduled, today, cache,
                      inflight>>

CallerUpdatePayloads ==
    {[first_name |-> "Bo"], [email |-> "b@x"], [other_info |-> None]}

CallerQueries ==
    {q \in FilterMappings : DOMAIN q \subseteq {"first_name", "nickname"}}

CallerCreate ==
    /\ contactSeq < MaxContacts + MaxInserts
    /\ \E a \in Authorizations, body \in ContactCreate :
        Serve([route |-> "create_new_contact", authorization |-> a,
               body |-> body], <<>>)

CallerList ==
    \E a \in Authorizations, skip \in Skips, limit \in Limits,
       order \in Orders(contacts) :
        Serve([route |-> "get_all_contacts", authorization |-> a,
               skip |-> skip, limit |-> limit], order)

CallerRead ==
    \E a \in Authorizations, id \in ContactIds :
        Serve([route |-> "read_contact", authorization |-> a,
               contact_id |-> id], <<>>)

CallerUpdate ==
    \E a \in Authorizations, id \in ContactIds,
       body \in CallerUpdatePayloads :
        Serve([route |-> "update_existing_contact", authorization |-> a,
               contact_id |-> id, body |-> body], <<>>)

CallerDelete ==
    \E a \in Authorizations, id \in ContactIds :
        Serve([route |-> "delete_existing_contact", authorization |-> a,
               contact_id |-> id], <<>>)

CallerSearch ==
    \E a \in Authorizations, query \in CallerQueries :
        Serve([route |-> "get_search_contacts", authorization |-> a,
               query |-> query], <<>>)

NextCaller ==
    \/ CallerCreate
    \/ CallerList
    \/ CallerRead
    \/ CallerUpdate
    \/ CallerDelete
    \/ CallerSearch

SpecCaller == InitRepo /\ [][NextCaller]_vars

(* C24: the answer to a contacts request and the store it leaves are those *)
(* of the same request under any other Authorization header, none          *)
(* included, and a row that a create request adds has no owning user.      *)
C24_CallerIndependent ==
    [][(resp'.op = "contacts_router")
        => /\ \A a \in Authorizations :
                LET r == contacts_router(
                             contacts, contactSeq, users,
                             [resp'.request EXCEPT !.authorization = a],
                             resp'.order)
                IN r.out = resp'.out /\ r.contacts = contacts'
           /\ (resp'.request.route = "create_new_contact")
                => \A c \in contacts' \ contacts : c.user_id = NoId]_vars

C24_Witness ==
    /\ resp.op = "contacts_router"
    /\ resp.request.route = "read_contact"
    /\ resp.request.authorization \in Authorizations \ {NoToken}
    /\ TokenEmail(resp.request.authorization) = "b@x"
    /\ resp.status = 200
    /\ resp.out.row.user_id = 1

------------------------------------------------------------------------------
(* Every exposed endpoint that reads or writes users, in one system *)

(* A user who has signed up and not confirmed yet *)
Newcomer == UserRow(1, "ann", "a@x", hash_password("secret1"), 0, None, FALSE)

InitUserStoresExposed == {{Owner, User2}, {Newcomer, User2}}

InitExposed ==
    /\ users \in InitUserStoresExposed
    /\ userSeq = MaxUsers
    /\ contacts = {}
    /\ contactSeq = 0
    /\ clock = 0
    /\ token = NoToken
    /\ scheduled = <<>>
    /\ today = <<FALSE, 1, 1>>
    /\ resp = NoResp
    /\ cache = EmptyCache
    /\ inflight = NoRequests

NextExposed ==
    \/ Signup
    \/ CreateJwtToken
    \/ ConfirmedEmail
    \/ GetCurrentUser
    \/ Tick
    \/ CreateNewUser
    \/ GetAllUsers
    \/ ReadUser
    \/ RequestEmail
    \/ Login

SpecExposed == InitExposed /\ [][NextExposed]_vars

(* C25: a step of an exposed endpoint adds user rows only with confirmed = *)
(* false, removes no user row, and changes a confirmed flag only from      *)
(* false to true, and only when the step is confirmed_email with a valid   *)
(* verification token whose email is that user's.                          *)
C25_UserLifecycle ==
    [][/\ \A u2 \in users' : (u2.id \notin Ids(users)) => ~u2.confirmed
       /\ \A u \in users : \E u2 \in users' : u2.id = u.id
       /\ \A u \in users, u2 \in users' :
            (u2.id = u.id /\ u2.confirmed # u.confirmed)
                => /\ ~u.confirmed
                   /\ u2.confirmed
                   /\ resp'.op = "confirmed_email"
                   /\ ValidToken(resp'.tok, "verification_token", clock)
                   /\ TokenEmail(resp'.tok) = u.email]_vars

C25_Witness ==
    /\ resp.op = "confirmed_email"
    /\ ValidToken(resp.tok, "verification_token", clock)
    /\ UnconfirmedStored(users, TokenEmail(resp.tok))
    /\ \E u \in users : u.email # TokenEmail(resp.tok) /\ ~u.confirmed

(* C26: confirmed_email answers 401 to a token that is not a valid         *)
(* verification token, 400 "Verification error" to a valid one whose email *)
(* no stored user has, and "Your email is already confirmed" to a valid    *)
(* one of a confirmed user; none of the three changes stored state.        *)
C26_ConfirmNoOpPaths ==
    [][(resp'.op = "confirmed_email")
        => IF ~ValidToken(resp'.tok, "verification_token", clock)
           THEN resp'.status = 401 /\ StoreUnchanged
           ELSE IF ~EmailStored(users, TokenEmail(resp'.tok))
           THEN /\ resp'.status = 400
                /\ resp'.detail = "Verification error"
                /\ StoreUnchanged
           ELSE ConfirmedStored(users, TokenEmail(resp'.tok))
                    => /\ resp'.status = 200
                       /\ resp'.detail = "Your email is already confirmed"
                       /\ StoreUnchanged]_vars

C26_Witness ==
    /\ resp.op = "confirmed_email"
    /\ resp.detail = "Your email is already confirmed"
    /\ ValidToken(resp.tok, "verification_token", clock)
    /\ ConfirmedStored(users, TokenEmail(resp.tok))

====
